---- MODULE Spec2Model ----
(***************************************************************************)
(* Model of parse_mc.py: WorkingMinecraftReader (region cache, chunk       *)
(* cache, get_block, get_multiple_blocks, scan_area) and the scan command  *)
(* of main().  The anvil library is the external decoder; it is modelled   *)
(* by a world that stays the same for the whole session: which region      *)
(* files load, which chunk slots decode, and what every voxel holds.       *)
(***************************************************************************)
EXTENDS Integers, Sequences, FiniteSets, TLC

VARIABLES
    world,            \* the files on disk, as the decoder sees them
    region_cache,     \* self.region_cache : (region_x, region_z) -> handle
    chunk_cache,      \* self.chunk_cache  : (chunk_x, chunk_z)   -> handle
    from_file_calls,  \* calls of anvil.Region.from_file, per region key
    get_chunk_calls,  \* calls of region.get_chunk, per chunk key asked for
    next_id,          \* identity of the next object the decoder creates
    nops,             \* public calls made on the reader so far
    last,             \* the last public call: arguments, result, what it did
    stdin,            \* the line typed at the "Command: " prompt, as words
    pc,               \* position of main(): "idle", "start" or "done"
    stdout,           \* what main() printed, one tag per message
    outfile           \* the lines main() wrote to its output file, or NoFile

vars == << world, region_cache, chunk_cache, from_file_calls, get_chunk_calls,
           next_id, nops, last, stdin, pc, stdout, outfile >>

-----------------------------------------------------------------------------
(* Bounds of the model *)

\* public calls per reader session
MaxOps == 2
\* length of the coordinate list given to get_multiple_blocks
MaxCoords == 2
\* |x| of the coordinates the addressing arithmetic is checked on
MaxAbs == 600
\* words after "scan" on the command line
MaxTokens == 7

-----------------------------------------------------------------------------
(* Python values *)

None == [kind |-> "None"]
IsNone(v) == v.kind = "None"
NoExc == "none"
NoFile == [written |-> FALSE, lines |-> << >>]
NoLine == [cmd |-> "", rest |-> << >>]

\* a call's outcome: the value it returns, or the exception it raises
Return(v) == [exc |-> NoExc, val |-> v]
Raise(e) == [exc |-> e, val |-> None]

Min(a, b) == IF a < b THEN a ELSE b
Max(a, b) == IF a > b THEN a ELSE b

-----------------------------------------------------------------------------
(* Integer arithmetic of get_block and _get_chunk *)

\* x >> n on Python's unbounded two's-complement integers: n halvings, each
\* dropping the lowest bit.
RECURSIVE ShrTrunc(_, _)
ShrTrunc(x, n) ==
    IF n = 0 THEN x
    ELSE ShrTrunc(IF x >= 0 THEN x \div 2 ELSE -((-x) \div 2), n - 1)

RECURSIVE Shr(_, _)
Shr(x, n) == IF n = 0 THEN x ELSE Shr((x - (x % 2)) \div 2, n - 1)

\* x & m for m >= 0, bit by bit; a negative x has infinitely many leading ones,
\* the recursion ends when the mask is used up.
RECURSIVE BitAnd(_, _)
BitAnd(x, m) ==
    IF m = 0 THEN 0
    ELSE (x % 2) * (m % 2) + 2 * BitAnd((x - (x % 2)) \div 2, (m - (m % 2)) \div 2)

\* a // b and a % b for b > 0: floor division and its non-negative remainder
FloorDiv(a, b) == a \div b

PyMod(a, b) == a - b * FloorDiv(a, b)

-----------------------------------------------------------------------------
(* The world on disk and the anvil decoder *)

\* the six spellings scan_area treats as empty space
air_blocks ==
    { "minecraft:air", "minecraft:cave_air", "minecraft:void_air",
      "air", "cave_air", "void_air" }

\* what a voxel can hold: solid blocks, every empty spelling, and RAISE for a
\* voxel whose decode fails inside chunk.get_block
Palette ==
    << "minecraft:stone", "minecraft:air", "minecraft:dirt", "minecraft:cave_air",
       "air", "minecraft:void_air", "cave_air", "RAISE", "void_air" >>

BlockIds == { Palette[i] : i \in 1..Len(Palette) } \ { "RAISE" }

\* the content of voxel (x, y, z): the palette laid over space, moved by the
\* world's shift, so that over the worlds every voxel holds every content
Content(w, x, y, z) == Palette[((x + 2 * y + 4 * z + w.shift) % Len(Palette)) + 1]

\* "ok", "missing" (no such file) or "corrupt" (the file does not parse)
RegionStatus(w, key) == IF key \in DOMAIN w.region THEN w.region[key] ELSE w.elsewhere

\* anvil.Region.from_file(region_file), for the file r.<region_x>.<region_z>.mca
Region_from_file(w, key, id) ==
    CASE RegionStatus(w, key) = "ok" ->
            Return([kind |-> "region", x |-> key[1], z |-> key[2], id |-> id])
      [] RegionStatus(w, key) = "missing" -> Raise("FileNotFoundError")
      [] OTHER -> Raise("DecodeError")

\* the chunk a region holds in slot (sx, sz)
SlotChunk(region, sx, sz) == << 32 * region.x + sx, 32 * region.z + sz >>

\* region.get_chunk(sx, sz)
Region_get_chunk(w, region, sx, sz, id) ==
    IF sx \notin 0..31 \/ sz \notin 0..31 THEN Raise("IndexError")
    ELSE IF SlotChunk(region, sx, sz) \in w.chunkFail THEN Raise("ChunkNotFound")
    ELSE Return([kind |-> "chunk", x |-> SlotChunk(region, sx, sz)[1],
                 z |-> SlotChunk(region, sx, sz)[2], id |-> id])

\* chunk.get_block(bx, y, bz).id
Chunk_get_block(w, chunk, bx, y, bz) ==
    IF bx \notin 0..15 \/ bz \notin 0..15 THEN Raise("IndexError")
    ELSE IF Content(w, 16 * chunk.x + bx, y, 16 * chunk.z + bz) = "RAISE"
         THEN Raise("DecodeError")
    ELSE Return(Content(w, 16 * chunk.x + bx, y, 16 * chunk.z + bz))

-----------------------------------------------------------------------------
(* The reader *)

Count(f, k) == IF k \in DOMAIN f THEN f[k] ELSE 0
Inc(f, k) == IF k \in DOMAIN f THEN [f EXCEPT ![k] = @ + 1] ELSE (k :> 1) @@ f
Put(f, k, v) == IF k \in DOMAIN f THEN [f EXCEPT ![k] = v] ELSE (k :> v) @@ f

\* the reader's fields, with the decoder's call counters and the decoder calls
\* of the public call under way
Reader ==
    [ region_cache |-> region_cache, chunk_cache |-> chunk_cache,
      from_file_calls |-> from_file_calls, get_chunk_calls |-> get_chunk_calls,
      next_id |-> next_id, calls |-> << >> ]

\* __init__ : both caches empty
NewReader ==
    [ region_cache |-> << >>, chunk_cache |-> << >>,
      from_file_calls |-> << >>, get_chunk_calls |-> << >>,
      next_id |-> 1, calls |-> << >> ]

\* lines 95-103 without line 98: the region is returned but not cached
region_miss_nostore(st, key, r) ==
    LET st1 == [st EXCEPT !.from_file_calls = Inc(@, key),
                          !.calls = Append(@, [fn |-> "from_file", key |-> key])]
    IN  IF r.exc = NoExc
        THEN [st |-> [st1 EXCEPT !.next_id = @ + 1], ret |-> r.val]
        ELSE [st |-> st1, ret |-> None]

\* lines 95-103: r is what anvil.Region.from_file did; a region is cached and
\* returned, an exception gives None
region_miss(st, key, r) ==
    LET st1 == [st EXCEPT !.from_file_calls = Inc(@, key),
                          !.calls = Append(@, [fn |-> "from_file", key |-> key])]
    IN  IF r.exc = NoExc
        THEN [st |-> [st1 EXCEPT !.region_cache = Put(@, key, r.val),
                                 !.next_id = @ + 1],
              ret |-> r.val]
        ELSE [st |-> st1, ret |-> None]

_get_region(w, st, region_x, region_z) ==
    IF << region_x, region_z >> \in DOMAIN st.region_cache
    THEN [st |-> st, ret |-> st.region_cache[<< region_x, region_z >>]]
    ELSE region_miss(st, << region_x, region_z >>,
                     Region_from_file(w, << region_x, region_z >>, st.next_id))

\* lines 75-83 without line 78: the chunk is returned but not cached
chunk_load_nostore(st, key, sx, sz, region, c) ==
    LET st1 == [st EXCEPT
                   !.get_chunk_calls = Inc(@, key),
                   !.calls = Append(@, [fn |-> "get_chunk", region |-> region.id,
                                        sx |-> sx, sz |-> sz])]
    IN  IF c.exc = NoExc
        THEN [st |-> [st1 EXCEPT !.next_id = @ + 1], ret |-> c.val]
        ELSE [st |-> st1, ret |-> None]

\* lines 75-83 with the failure remembered: an exception of region.get_chunk
\* stores None under the chunk's key
chunk_load_keep_absent(st, key, sx, sz, region, c) ==
    LET st1 == [st EXCEPT
                   !.get_chunk_calls = Inc(@, key),
                   !.calls = Append(@, [fn |-> "get_chunk", region |-> region.id,
                                        sx |-> sx, sz |-> sz])]
    IN  IF c.exc = NoExc
        THEN [st |-> [st1 EXCEPT !.chunk_cache = Put(@, key, c.val),
                                 !.next_id = @ + 1],
              ret |-> c.val]
        ELSE [st |-> [st1 EXCEPT !.chunk_cache = Put(@, key, None)], ret |-> None]

\* lines 75-83: c is what region.get_chunk(sx, sz) did; a chunk is cached
\* and returned, an exception gives None
chunk_load(st, key, sx, sz, region, c) ==
    LET st1 == [st EXCEPT
                   !.get_chunk_calls = Inc(@, key),
                   !.calls = Append(@, [fn |-> "get_chunk", region |-> region.id,
                                        sx |-> sx, sz |-> sz])]
    IN  IF c.exc = NoExc
        THEN [st |-> [st1 EXCEPT !.chunk_cache = Put(@, key, c.val),
                                 !.next_id = @ + 1],
              ret |-> c.val]
        ELSE [st |-> st1, ret |-> None]

\* lines 72-83: rg is what _get_region returned, and the reader it left
chunk_miss(w, chunk_x, chunk_z, rg) ==
    IF IsNone(rg.ret) THEN [st |-> rg.st, ret |-> None]
    ELSE chunk_load(rg.st, << chunk_x, chunk_z >>,
                    PyMod(chunk_x, 32), PyMod(chunk_z, 32), rg.ret,
                    Region_get_chunk(w, rg.ret, PyMod(chunk_x, 32),
                                     PyMod(chunk_z, 32), rg.st.next_id))

\* _get_chunk without the cache test of lines 63-64: every call decodes again
_get_chunk_nocache(w, st, chunk_x, chunk_z) ==
    chunk_miss(w, chunk_x, chunk_z,
               _get_region(w, st, FloorDiv(chunk_x, 32), FloorDiv(chunk_z, 32)))

_get_chunk(w, st, chunk_x, chunk_z) ==
    IF << chunk_x, chunk_z >> \in DOMAIN st.chunk_cache
    THEN [st |-> st, ret |-> st.chunk_cache[<< chunk_x, chunk_z >>]]
    ELSE chunk_miss(w, chunk_x, chunk_z,
                    _get_region(w, st, FloorDiv(chunk_x, 32), FloorDiv(chunk_z, 32)))

\* lines 52-53: b is what chunk.get_block(block_x, y, block_z) did
block_read(st, chunk, block_x, y, block_z, b) ==
    [st |-> [st EXCEPT !.calls =
                Append(@, [fn |-> "get_block", chunk |-> chunk.id,
                           bx |-> block_x, y |-> y, bz |-> block_z])],
     exc |-> b.exc, ret |-> b.val]

\* lines 48-53: ch is what _get_chunk returned, and the reader it left
block_of(w, block_x, y, block_z, ch) ==
    IF IsNone(ch.ret)
    THEN [st |-> ch.st, exc |-> NoExc, ret |-> "minecraft:air"]
    ELSE block_read(ch.st, ch.ret, block_x, y, block_z,
                    Chunk_get_block(w, ch.ret, block_x, y, block_z))

\* the try block of get_block, lines 38-53: what it returns or raises
get_block_try(w, st, x, y, z) ==
    block_of(w, BitAnd(x, 15), y, BitAnd(z, 15),
             _get_chunk(w, st, Shr(x, 4), Shr(z, 4)))

\* get_block without the except clause of lines 55-57
uncaught(r) == r

\* lines 55-57: an exception of the try block gives "minecraft:air"
caught(r) ==
    IF r.exc = NoExc THEN r
    ELSE [st |-> r.st, exc |-> NoExc, ret |-> "minecraft:air"]

get_block(w, st, x, y, z) == caught(get_block_try(w, st, x, y, z))


\* a dict, in insertion order: a sequence of <<key, value>> with distinct keys
DictKeys(d) == { d[i][1] : i \in 1..Len(d) }
DictGet(d, k) == d[CHOOSE i \in 1..Len(d) : d[i][1] = k][2]
DictPut(d, k, v) ==
    IF k \in DictKeys(d)
    THEN [i \in 1..Len(d) |-> IF d[i][1] = k THEN << k, v >> ELSE d[i]]
    ELSE Append(d, << k, v >>)

\* the loops of get_multiple_blocks and scan_area carry the reader, the dict
\* built so far, the coordinates looked up and an exception, if one ended them

\* line 118: g is what get_block returned
multi_store(acc, c, g) ==
    [st |-> g.st, exc |-> g.exc, visited |-> Append(acc.visited, c),
     blocks |-> IF g.exc = NoExc THEN DictPut(acc.blocks, c, g.ret) ELSE acc.blocks]

\* lines 117-118
multi_step(w, acc, c) ==
    IF acc.exc # NoExc THEN acc
    ELSE multi_store(acc, c, get_block(w, acc.st, c[1], c[2], c[3]))

\* lines 116-118, from the i-th coordinate of the list on
RECURSIVE multi_loop(_, _, _, _)
multi_loop(w, acc, coordinates, i) ==
    IF i > Len(coordinates) THEN acc
    ELSE multi_loop(w, multi_step(w, acc, coordinates[i]), coordinates, i + 1)

LoopStart(st) == [st |-> st, exc |-> NoExc, visited |-> << >>, blocks |-> << >>]

LoopResult(acc) ==
    [st |-> acc.st, exc |-> acc.exc, visited |-> acc.visited,
     ret |-> IF acc.exc = NoExc THEN acc.blocks ELSE None]

\* a get_multiple_blocks that keeps only the non-air results, as scan_area does
FilteredResult(acc) ==
    [st |-> acc.st, exc |-> acc.exc, visited |-> acc.visited,
     ret |-> IF acc.exc = NoExc
             THEN SelectSeq(acc.blocks, LAMBDA e : e[2] \notin air_blocks)
             ELSE None]

get_multiple_blocks_filtered(w, st, coordinates) ==
    FilteredResult(multi_loop(w, LoopStart(st), coordinates, 1))

get_multiple_blocks(w, st, coordinates) ==
    LoopResult(multi_loop(w, LoopStart(st), coordinates, 1))

\* lines 161-162: g is what get_block returned
scan_store(acc, v, g) ==
    [st |-> g.st, exc |-> g.exc, visited |-> Append(acc.visited, v),
     blocks |-> IF g.exc = NoExc /\ g.ret \notin air_blocks
                THEN DictPut(acc.blocks, v, g.ret)
                ELSE acc.blocks]

\* lines 159-162: the body of the innermost loop of scan_area
scan_voxel(w, acc, x, y, z) ==
    IF acc.exc # NoExc THEN acc
    ELSE scan_store(acc, << x, y, z >>, get_block(w, acc.st, x, y, z))

\* whether the loop goes on after this voxel: not once one has read as
\* minecraft:air
GoesOn(acc) == acc.blocks # << >> /\ acc.blocks[Len(acc.blocks)][1] = acc.visited[Len(acc.visited)]


\* the innermost loop with a break after the first voxel that is not kept
RECURSIVE scan_z_break(_, _, _, _, _, _)
scan_z_break(w, acc, x, y, z, z_stop) ==
    IF z >= z_stop \/ (acc.visited # << >> /\ ~GoesOn(acc)) THEN acc
    ELSE scan_z_break(w, scan_voxel(w, acc, x, y, z), x, y, z + 1, z_stop)

\* for z in range(z, z_stop)
RECURSIVE scan_z(_, _, _, _, _, _)
scan_z(w, acc, x, y, z, z_stop) ==
    IF z >= z_stop THEN acc
    ELSE scan_z(w, scan_voxel(w, acc, x, y, z), x, y, z + 1, z_stop)

\* for y in range(y, y_stop): for z in range(z_start, z_stop)
RECURSIVE scan_y(_, _, _, _, _, _, _)
scan_y(w, acc, x, y, y_stop, z_start, z_stop) ==
    IF y >= y_stop THEN acc
    ELSE scan_y(w, scan_z(w, acc, x, y, z_start, z_stop), x, y + 1, y_stop,
                z_start, z_stop)

\* for x in range(x, x_stop): for y in range(y_start, y_stop): for z in ...
RECURSIVE scan_x(_, _, _, _, _, _, _, _)
scan_x(w, acc, x, x_stop, y_start, y_stop, z_start, z_stop) ==
    IF x >= x_stop THEN acc
    ELSE scan_x(w, scan_y(w, acc, x, y_start, y_stop, z_start, z_stop),
                x + 1, x_stop, y_start, y_stop, z_start, z_stop)

\* scan_area with range(min, max): the far faces of the box left out
scan_area_exclusive(w, st, x1, y1, z1, x2, y2, z2) ==
    LoopResult(scan_x(w, LoopStart(st),
                      Min(x1, x2), Max(x1, x2), Min(y1, y2), Max(y1, y2),
                      Min(z1, z2), Max(z1, z2)))

\* scan_area with range(x1, x2 + 1): the corners taken in the order given
scan_area_as_given(w, st, x1, y1, z1, x2, y2, z2) ==
    LoopResult(scan_x(w, LoopStart(st), x1, x2 + 1, y1, y2 + 1, z1, z2 + 1))

scan_area(w, st, x1, y1, z1, x2, y2, z2) ==
    LoopResult(scan_x(w, LoopStart(st),
                      Min(x1, x2), Max(x1, x2) + 1, Min(y1, y2), Max(y1, y2) + 1,
                      Min(z1, z2), Max(z1, z2) + 1))

-----------------------------------------------------------------------------
(* A reader session: any public calls, in any order, on one reader *)

\* the voxels the session asks about: x crosses the region boundary at 0,
\* z crosses a chunk boundary inside one region, y stays in one chunk
Xs == { -1, 0 }
Ys == { 63, 64 }
Zs == { 15, 16 }
Voxels == Xs \X Ys \X Zs
Regions == { << -1, 0 >>, << 0, 0 >> }
\* the coordinates get_multiple_blocks is given: two voxels of one chunk
BatchVoxels == { << 0, 63, 16 >>, << 0, 64, 16 >> }
\* the corners scan_area is given: they span the whole box, a plane across the
\* region boundary, a column inside one chunk, and single voxels
ScanCorners == { << -1, 63, 15 >>, << 0, 64, 16 >>, << 0, 63, 16 >> }

\* every region loads, is missing or is corrupt; no chunk slot fails, or one
\* does in either region;
\* the two shifts together put every content of the palette on some voxel
RegionStates == [Regions -> { "ok", "missing", "corrupt" }]
ChunkFailures == { {}, { << -1, 0 >> }, { << 0, 1 >> } }
Shifts == { 1, 4 }

Worlds ==
    { [dir |-> TRUE, region |-> r, elsewhere |-> "missing", chunkFail |-> cf,
       shift |-> s] :
        r \in RegionStates, cf \in ChunkFailures, s \in Shifts }

NoCall == [op |-> "none"]

Idle == /\ stdin = NoLine
        /\ pc = "idle"
        /\ stdout = << >>
        /\ outfile = NoFile

Init ==
    /\ world \in Worlds
    /\ region_cache = NewReader.region_cache
    /\ chunk_cache = NewReader.chunk_cache
    /\ from_file_calls = << >>
    /\ get_chunk_calls = << >>
    /\ next_id = 1
    /\ nops = 0
    /\ last = NoCall
    /\ Idle

\* the reader after a call, and the record of the call
Returned(r, op, args) ==
    /\ region_cache' = r.st.region_cache
    /\ chunk_cache' = r.st.chunk_cache
    /\ from_file_calls' = r.st.from_file_calls
    /\ get_chunk_calls' = r.st.get_chunk_calls
    /\ next_id' = r.st.next_id
    /\ nops' = nops + 1
    /\ last' = [op |-> op, args |-> args, exc |-> r.exc, ret |-> r.ret,
                visited |-> IF op = "get_block" THEN << args >> ELSE r.visited,
                calls |-> r.st.calls]
    /\ UNCHANGED << world, stdin, pc, stdout, outfile >>

GetBlock ==
    /\ pc = "idle"
    /\ nops < MaxOps
    /\ \E v \in Voxels :
         \E r \in { get_block(world, Reader, v[1], v[2], v[3]) } :
             Returned(r, "get_block", v)

GetMultipleBlocks ==
    /\ pc = "idle"
    /\ nops < MaxOps
    /\ \E n \in 0..MaxCoords : \E coordinates \in [1..n -> BatchVoxels] :
         \E r \in { get_multiple_blocks(world, Reader, coordinates) } :
             Returned(r, "get_multiple_blocks", coordinates)

ScanArea ==
    /\ pc = "idle"
    /\ nops < MaxOps
    /\ \E a \in ScanCorners, b \in ScanCorners :
         \E r \in { scan_area(world, Reader, a[1], a[2], a[3], b[1], b[2], b[3]) } :
             Returned(r, "scan_area", << a, b >>)

Next == GetBlock \/ GetMultipleBlocks \/ ScanArea

Spec == Init /\ [][Next]_vars

-----------------------------------------------------------------------------
(* One get_block call anywhere in a world where everything decodes *)

\* z values on both sides of the chunk and region boundaries
FarZs == { -513, -512, -17, -16, -1, 0, 15, 16, 511, 512 }

OpenWorld ==
    [dir |-> TRUE, region |-> << >>, elsewhere |-> "ok", chunkFail |-> {},
     shift |-> 0]

InitFar ==
    /\ world = OpenWorld
    /\ region_cache = NewReader.region_cache
    /\ chunk_cache = NewReader.chunk_cache
    /\ from_file_calls = << >>
    /\ get_chunk_calls = << >>
    /\ next_id = 1
    /\ nops = 0
    /\ last = NoCall
    /\ Idle

GetBlockFar ==
    /\ pc = "idle"
    /\ nops = 0
    /\ \E x \in (-MaxAbs)..MaxAbs, y \in Ys, z \in FarZs :
         \E r \in { get_block(world, Reader, x, y, z) } :
             Returned(r, "get_block", << x, y, z >>)

NextFar == GetBlockFar

SpecFar == InitFar /\ [][NextFar]_vars

-----------------------------------------------------------------------------
(* The scan command: main() *)

\* the factor of lines 203-205
Scale == 48

Digit ==
    [c \in { "0", "1", "2", "3", "4", "5", "6", "7", "8", "9" } |->
        CASE c = "0" -> 0 [] c = "1" -> 1 [] c = "2" -> 2 [] c = "3" -> 3
          [] c = "4" -> 4 [] c = "5" -> 5 [] c = "6" -> 6 [] c = "7" -> 7
          [] c = "8" -> 8 [] c = "9" -> 9]

RECURSIVE DigitsValue(_)
DigitsValue(ds) ==
    IF ds = << >> THEN 0
    ELSE 10 * DigitsValue(SubSeq(ds, 1, Len(ds) - 1)) + Digit[ds[Len(ds)]]

\* an int() that reads a token that is no integer as 0
py_int_lenient(tok) ==
    LET signed == Len(tok) > 0 /\ tok[1] \in { "-", "+" }
        ds == IF signed THEN Tail(tok) ELSE tok
    IN  IF Len(ds) > 0 /\ \A i \in 1..Len(ds) : ds[i] \in DOMAIN Digit
        THEN Return(IF signed /\ tok[1] = "-" THEN -DigitsValue(ds)
                    ELSE DigitsValue(ds))
        ELSE Return(0)

\* int(token) of line 186, a token being its characters: an optional sign and
\* at least one digit, anything else raises ValueError
py_int(tok) ==
    LET signed == Len(tok) > 0 /\ tok[1] \in { "-", "+" }
        ds == IF signed THEN Tail(tok) ELSE tok
    IN  IF Len(ds) > 0 /\ \A i \in 1..Len(ds) : ds[i] \in DOMAIN Digit
        THEN Return(IF signed /\ tok[1] = "-" THEN -DigitsValue(ds)
                    ELSE DigitsValue(ds))
        ELSE Raise("ValueError")

\* user_input.startswith('scan ') on the stripped line: the first word is
\* "scan" and a word follows it
StartsWithScan(line) == line.cmd = "scan" /\ Len(line.rest) >= 1

\* lines 201-206: one line per block, in the dict's order
FileLines(blocks) ==
    [i \in 1..Len(blocks) |->
        << blocks[i][1][3] * Scale, blocks[i][1][1] * Scale, blocks[i][1][2] * Scale >>]

Banner == << "initialised", "regions", "prompt" >>

\* main() ending before line 189: nothing scanned, nothing written
Quiet(out) == [st |-> NewReader, stdout |-> out, outfile |-> NoFile, scans |-> << >>]

\* lines 191-227: sc is what scan_area returned
report(args, sc) ==
    [st |-> sc.st,
     stdout |-> Banner \o << "scanning" >> \o
                (IF sc.ret # << >> THEN << "found", "saved", "preview" >>
                 ELSE << "no blocks found" >>),
     outfile |-> IF sc.ret # << >>
                 THEN [written |-> TRUE, lines |-> FileLines(sc.ret)]
                 ELSE NoFile,
     scans |-> << [op |-> "scan_area", args |-> args, exc |-> sc.exc,
                   ret |-> sc.ret, visited |-> sc.visited, calls |-> sc.st.calls] >>]

\* lines 186-227: ints is what int() did with each of the six words
scan_command(w, ints) ==
    IF \E i \in 1..6 : ints[i].exc # NoExc
    THEN Quiet(Banner \o << "valid integer coordinates" >>)
    ELSE report(<< << ints[1].val, ints[2].val, ints[3].val >>,
                   << ints[4].val, ints[5].val, ints[6].val >> >>,
                scan_area(w, NewReader, ints[1].val, ints[2].val, ints[3].val,
                          ints[4].val, ints[5].val, ints[6].val))

\* main(): what it prints, the file it writes, the reader it leaves and the
\* scan_area calls it made
main(w, line) ==
    IF ~w.dir THEN Quiet(<< "no region folder" >>)
    ELSE IF ~StartsWithScan(line) THEN Quiet(Banner \o << "start with scan" >>)
    ELSE IF Len(line.rest) # 6 THEN Quiet(Banner \o << "exactly 6 coordinates" >>)
    ELSE scan_command(w, [i \in 1..6 |-> py_int(line.rest[i])])

\* the words that can follow the command word: two integers, a number that is
\* no integer, a sign without digits
Tokens == { << "0" >>, << "-", "1" >>, << "1", ".", "5" >>, << "-" >> }
IntTokens == { << "0" >>, << "-", "1" >> }

Lines ==
    { [cmd |-> c, rest |-> t] :
        c \in { "scan", "look" },
        t \in UNION { [1..n -> Tokens] : n \in 0..MaxTokens } }

\* worlds for the command: every region loads or none does; the region folder
\* may be missing
MainWorlds ==
    { [dir |-> TRUE, region |-> << >>, elsewhere |-> "ok", chunkFail |-> {},
       shift |-> 0],
      [dir |-> TRUE, region |-> << >>, elsewhere |-> "missing", chunkFail |-> {},
       shift |-> 0],
      [dir |-> FALSE, region |-> << >>, elsewhere |-> "missing", chunkFail |-> {},
       shift |-> 0] }

InitMain ==
    /\ world \in MainWorlds
    /\ region_cache = NewReader.region_cache
    /\ chunk_cache = NewReader.chunk_cache
    /\ from_file_calls = << >>
    /\ get_chunk_calls = << >>
    /\ next_id = 1
    /\ nops = 0
    /\ last = NoCall
    /\ stdin \in Lines
    /\ pc = "start"
    /\ stdout = << >>
    /\ outfile = NoFile

Main ==
    /\ pc = "start"
    /\ \E m \in { main(world, stdin) } :
           /\ region_cache' = m.st.region_cache
           /\ chunk_cache' = m.st.chunk_cache
           /\ from_file_calls' = m.st.from_file_calls
           /\ get_chunk_calls' = m.st.get_chunk_calls
           /\ next_id' = m.st.next_id
           /\ nops' = Len(m.scans)
           /\ last' = IF m.scans = << >> THEN NoCall ELSE m.scans[1]
           /\ stdout' = m.stdout
           /\ outfile' = m.outfile
    /\ pc' = "done"
    /\ UNCHANGED << world, stdin >>

NextMain == Main

SpecMain == InitMain /\ [][NextMain]_vars

-----------------------------------------------------------------------------
(* What the world holds, read off the world without the reader *)

ChunkOfVoxel(x, z) == << x \div 16, z \div 16 >>
RegionOfChunk(c) == << c[1] \div 32, c[2] \div 32 >>
RegionOfVoxel(x, z) == RegionOfChunk(ChunkOfVoxel(x, z))

ChunkAbsent(w, x, z) ==
    \/ RegionStatus(w, RegionOfVoxel(x, z)) # "ok"
    \/ ChunkOfVoxel(x, z) \in w.chunkFail

VoxelFails(w, x, y, z) == Content(w, x, y, z) = "RAISE"

\* the inclusive box between two corners
Between(p, q) == (p..q) \cup (q..p)
Box(a, b) == Between(a[1], b[1]) \X Between(a[2], b[2]) \X Between(a[3], b[3])

\* a dict as a mapping, insertion order forgotten
AsMap(d) == [k \in DictKeys(d) |-> DictGet(d, k)]

\* what a get_block call on the reader as it is now returns
Lookup(v) == get_block(world, Reader, v[1], v[2], v[3]).ret

CallsOf(calls, fn) == { i \in 1..Len(calls) : calls[i].fn = fn }

-----------------------------------------------------------------------------
(* Claims about the reader session *)

\* C1: get_block never raises to its caller and returns a block identifier,
\* whatever the decoder does and whatever the caches hold; when the chunk is
\* absent (region missing or corrupt, slot decode failed) or the voxel's
\* decode fails, the identifier is exactly "minecraft:air".
C1_GetBlockTotal ==
    last.op = "get_block" =>
        /\ last.exc = NoExc
        /\ last.ret \in BlockIds
        /\ ( \/ ChunkAbsent(world, last.args[1], last.args[3])
             \/ VoxelFails(world, last.args[1], last.args[2], last.args[3]) )
           => last.ret = "minecraft:air"

\* a get_block on a reader with populated caches hit a voxel whose decode fails
C1_Witness ==
    /\ last.op = "get_block"
    /\ nops = 2
    /\ DOMAIN chunk_cache # {}
    /\ ~ChunkAbsent(world, last.args[1], last.args[3])
    /\ VoxelFails(world, last.args[1], last.args[2], last.args[3])
    /\ last.ret = "minecraft:air"

\* two get_block calls in a row, the first on a fresh reader, in one chunk
TwoCallsOneChunk ==
    /\ nops = 1
    /\ last.op = "get_block"
    /\ nops' = 2
    /\ last'.op = "get_block"
    /\ ChunkOfVoxel(last.args[1], last.args[3])
         = ChunkOfVoxel(last'.args[1], last'.args[3])

\* C2 as stated: two get_block calls in the same chunk make exactly one call
\* of region.get_chunk for it, whatever the decoder does.
C2_Original ==
    [][ TwoCallsOneChunk =>
          Count(get_chunk_calls', ChunkOfVoxel(last.args[1], last.args[3])) = 1 ]_vars

\* C2 amended: when the first of two consecutive get_block calls in one chunk
\* misses the cache and decodes the chunk, the second call decodes nothing:
\* one region.get_chunk call for the two, the second served from the cache.
C2_OneDecodeWhenDecoded ==
    [][ ( /\ last.op = "get_block"
          /\ last'.op = "get_block"
          /\ nops' = nops + 1
          /\ ChunkOfVoxel(last.args[1], last.args[3])
               = ChunkOfVoxel(last'.args[1], last'.args[3])
          /\ Cardinality(CallsOf(last.calls, "get_chunk")) = 1
          /\ ~ChunkAbsent(world, last.args[1], last.args[3]) )
        => /\ CallsOf(last'.calls, "get_chunk") = {}
           /\ CallsOf(last'.calls, "from_file") = {}
           /\ get_chunk_calls' = get_chunk_calls
           /\ chunk_cache' = chunk_cache ]_vars

\* after two calls, the second a get_block that decoded nothing, its chunk is
\* cached and was decoded once
C2_Witness ==
    /\ nops = 2
    /\ last.op = "get_block"
    /\ CallsOf(last.calls, "get_chunk") = {}
    /\ Cardinality(CallsOf(last.calls, "get_block")) = 1
    /\ ChunkOfVoxel(last.args[1], last.args[3]) \in DOMAIN chunk_cache
    /\ Count(get_chunk_calls, ChunkOfVoxel(last.args[1], last.args[3])) = 1

\* C3: scan_area returns exactly the voxels of the inclusive box between the
\* corners whose get_block result is none of the six empty tokens, each
\* mapped to that result; a one-voxel scan has at most one entry and none
\* when the voxel reads as an empty token.
C3_ScanAreaMapping ==
    last.op = "scan_area" =>
        /\ last.exc = NoExc
        /\ DictKeys(last.ret)
             = { v \in Box(last.args[1], last.args[2]) : Lookup(v) \notin air_blocks }
        /\ Len(last.ret) = Cardinality(DictKeys(last.ret))
        /\ \A v \in DictKeys(last.ret) : DictGet(last.ret, v) = Lookup(v)
        /\ last.args[1] = last.args[2] =>
             /\ Len(last.ret) <= 1
             /\ Lookup(last.args[1]) \in air_blocks => last.ret = << >>

\* a scan kept two blocks and dropped a voxel holding an empty token other
\* than "minecraft:air"
C3_Witness ==
    /\ last.op = "scan_area"
    /\ Len(last.ret) >= 2
    /\ \E v \in Box(last.args[1], last.args[2]) :
         /\ ~ChunkAbsent(world, v[1], v[3])
         /\ Content(world, v[1], v[2], v[3]) \in air_blocks \ { "minecraft:air" }
         /\ v \notin DictKeys(last.ret)

\* C4: scan_area gives the same mapping with the corners exchanged, on a
\* fresh reader and on the reader the first scan has left behind.
C4_CornerOrder ==
    last.op = "scan_area" =>
        LET a == last.args[1]
            b == last.args[2]
        IN  /\ AsMap(scan_area(world, NewReader, a[1], a[2], a[3], b[1], b[2], b[3]).ret)
                 = AsMap(scan_area(world, NewReader, b[1], b[2], b[3], a[1], a[2], a[3]).ret)
            /\ AsMap(scan_area(world, Reader, b[1], b[2], b[3], a[1], a[2], a[3]).ret)
                 = AsMap(last.ret)

\* a scan whose first corner is the far one on every axis found blocks
C4_Witness ==
    /\ last.op = "scan_area"
    /\ last.args[1][1] > last.args[2][1]
    /\ last.args[1][2] > last.args[2][2]
    /\ last.args[1][3] > last.args[2][3]
    /\ Len(last.ret) >= 2

\* C6: get_multiple_blocks returns one entry per distinct input coordinate,
\* nothing filtered out, each holding what get_block returns for it.
C6_MultipleBlocks ==
    last.op = "get_multiple_blocks" =>
        /\ last.exc = NoExc
        /\ DictKeys(last.ret) = { last.args[i] : i \in 1..Len(last.args) }
        /\ Len(last.ret) = Cardinality(DictKeys(last.ret))
        /\ \A v \in DictKeys(last.ret) : DictGet(last.ret, v) = Lookup(v)

\* the same coordinate given twice, reading as an empty token: one entry
C6_Witness ==
    /\ last.op = "get_multiple_blocks"
    /\ Len(last.args) = 2
    /\ last.args[1] = last.args[2]
    /\ Len(last.ret) = 1
    /\ last.ret[1][2] \in air_blocks

\* the voxels of the box in the order of the loop nest: x outermost, then y,
\* then z, each ascending
NestedOrder(a, b) ==
    LET x0 == CHOOSE x \in Between(a[1], b[1]) : \A u \in Between(a[1], b[1]) : x <= u
        y0 == CHOOSE y \in Between(a[2], b[2]) : \A u \in Between(a[2], b[2]) : y <= u
        z0 == CHOOSE z \in Between(a[3], b[3]) : \A u \in Between(a[3], b[3]) : z <= u
        ny == Cardinality(Between(a[2], b[2]))
        nz == Cardinality(Between(a[3], b[3]))
    IN  [i \in 1..Cardinality(Box(a, b)) |->
            << x0 + ((i - 1) \div (ny * nz)),
               y0 + (((i - 1) \div nz) % ny),
               z0 + ((i - 1) % nz) >>]

\* C7: scan_area runs to the end whatever fails underneath: it returns
\* without an exception after one get_block call per voxel of the box, in
\* nested ascending order, and a voxel whose region does not load is looked
\* up again each time (one from_file call per such voxel).
C7_ScanNeverAborts ==
    last.op = "scan_area" =>
        /\ last.exc = NoExc
        /\ last.visited = NestedOrder(last.args[1], last.args[2])
        /\ \A r \in Regions :
             RegionStatus(world, r) # "ok" =>
                Cardinality({ i \in CallsOf(last.calls, "from_file") :
                                last.calls[i].key = r })
                  = Cardinality({ v \in Box(last.args[1], last.args[2]) :
                                    RegionOfVoxel(v[1], v[3]) = r })

\* a scan of the whole box met a region that does not load, a chunk slot
\* that does not decode and a voxel that does not decode
C7_Witness ==
    /\ last.op = "scan_area"
    /\ Len(last.visited) = Cardinality(Voxels)
    /\ \E r \in Regions : RegionStatus(world, r) # "ok"
    /\ \E v \in Voxels :
         /\ ~ChunkAbsent(world, v[1], v[3])
         /\ VoxelFails(world, v[1], v[2], v[3])
    /\ \E c \in world.chunkFail : RegionStatus(world, RegionOfChunk(c)) = "ok"

\* C9: a key that is in the region cache or the chunk cache stays there with
\* the same handle through every later call, and the decoder is not called
\* for it again.
C9_CachePermanent ==
    [][ /\ \A k \in DOMAIN region_cache :
             /\ k \in DOMAIN region_cache'
             /\ region_cache'[k] = region_cache[k]
             /\ Count(from_file_calls', k) = Count(from_file_calls, k)
        /\ \A k \in DOMAIN chunk_cache :
             /\ k \in DOMAIN chunk_cache'
             /\ chunk_cache'[k] = chunk_cache[k]
             /\ Count(get_chunk_calls', k) = Count(get_chunk_calls, k) ]_vars

\* a second call read blocks from cached chunks only
C9_Witness ==
    /\ nops = 2
    /\ last.op = "scan_area"
    /\ CallsOf(last.calls, "get_chunk") = {}
    /\ CallsOf(last.calls, "from_file") = {}
    /\ Cardinality(CallsOf(last.calls, "get_block")) >= 2
    /\ Cardinality(DOMAIN chunk_cache) >= 2

\* C10: every chunk in the chunk cache has its region in the region cache.
C10_ChunkImpliesRegion ==
    \A k \in DOMAIN chunk_cache : RegionOfChunk(k) \in DOMAIN region_cache

\* one region is cached with a chunk of its own, another with none
C10_Witness ==
    /\ \E k \in DOMAIN chunk_cache : RegionOfChunk(k) \in DOMAIN region_cache
    /\ \E r \in DOMAIN region_cache :
         \A k \in DOMAIN chunk_cache : RegionOfChunk(k) # r

\* the lookups of the last call that fell in region r, in chunk k
LookupsInRegion(r) ==
    { j \in 1..Len(last.visited) :
        RegionOfVoxel(last.visited[j][1], last.visited[j][3]) = r }
LookupsInChunk(k) ==
    { j \in 1..Len(last.visited) :
        ChunkOfVoxel(last.visited[j][1], last.visited[j][3]) = k }

\* the region.get_chunk calls of the last call that asked for chunk k
GetChunkCallsFor(k) ==
    { i \in CallsOf(last.calls, "get_chunk") :
        /\ last.calls[i].region = region_cache[RegionOfChunk(k)].id
        /\ last.calls[i].sx = k[1] - 32 * RegionOfChunk(k)[1]
        /\ last.calls[i].sz = k[2] - 32 * RegionOfChunk(k)[2] }

\* C11: a chunk that resolves to Absent leaves nothing behind: the chunk
\* cache holds only chunk handles of chunks that decode, the region cache only
\* handles of regions that load, and every later lookup in an absent chunk is
\* a miss again: it calls anvil.Region.from_file again when the region does
\* not load, and region.get_chunk again when the slot does not decode.
C11_NoNegativeCaching ==
    /\ \A k \in DOMAIN chunk_cache :
         /\ chunk_cache[k].kind = "chunk"
         /\ << chunk_cache[k].x, chunk_cache[k].z >> = k
         /\ RegionStatus(world, RegionOfChunk(k)) = "ok"
         /\ k \notin world.chunkFail
    /\ \A r \in DOMAIN region_cache :
         /\ region_cache[r].kind = "region"
         /\ RegionStatus(world, r) = "ok"
    /\ last.op # "none" =>
         /\ \A r \in Regions :
              RegionStatus(world, r) # "ok" =>
                 Cardinality({ i \in CallsOf(last.calls, "from_file") :
                                 last.calls[i].key = r })
                   = Cardinality(LookupsInRegion(r))
         /\ \A k \in world.chunkFail :
              RegionStatus(world, RegionOfChunk(k)) = "ok" =>
                 IF RegionOfChunk(k) \in DOMAIN region_cache
                 THEN Cardinality(GetChunkCallsFor(k)) = Cardinality(LookupsInChunk(k))
                 ELSE LookupsInChunk(k) = {}

\* a second call looked again into a region that does not load and into a
\* chunk that does not decode: both were tried again, neither is cached,
\* while a chunk that decodes is
C11_Witness ==
    /\ nops = 2
    /\ last.op # "none"
    /\ \E r \in Regions :
         /\ RegionStatus(world, r) # "ok"
         /\ LookupsInRegion(r) # {}
         /\ Count(from_file_calls, r) > Cardinality(LookupsInRegion(r))
         /\ r \notin DOMAIN region_cache
    /\ \E k \in world.chunkFail :
         /\ RegionOfChunk(k) \in DOMAIN region_cache
         /\ LookupsInChunk(k) # {}
         /\ Count(get_chunk_calls, k) > Cardinality(LookupsInChunk(k))
         /\ k \notin DOMAIN chunk_cache
    /\ DOMAIN chunk_cache # {}

-----------------------------------------------------------------------------
(* Claims about the addressing arithmetic and the scan command *)

\* C5: for every integer x (and z), negative ones included, c = x >> 4 and
\* l = x & 15 satisfy 0 <= l < 16 and 16c + l = x, and r = c // 32 and
\* s = c % 32 satisfy 0 <= s < 32 and 32r + s = c; get_block hands the region
\* decoder the slot (s) and the chunk decoder the offset (l), and so reads the
\* voxel it was asked for.
C5_Decomposition ==
    last.op = "get_block" =>
        LET x == last.args[1]
            z == last.args[3]
            cx == Shr(x, 4)
            cz == Shr(z, 4)
            lx == BitAnd(x, 15)
            lz == BitAnd(z, 15)
            rx == FloorDiv(cx, 32)
            rz == FloorDiv(cz, 32)
            sx == PyMod(cx, 32)
            sz == PyMod(cz, 32)
        IN  /\ lx \in 0..15 /\ lz \in 0..15
            /\ 16 * cx + lx = x /\ 16 * cz + lz = z
            /\ sx \in 0..31 /\ sz \in 0..31
            /\ 32 * rx + sx = cx /\ 32 * rz + sz = cz
            /\ \A i \in CallsOf(last.calls, "from_file") :
                 last.calls[i].key = << rx, rz >>
            /\ \A i \in CallsOf(last.calls, "get_chunk") :
                 /\ last.calls[i].sx = sx /\ last.calls[i].sz = sz
                 /\ last.calls[i].sx \in 0..31 /\ last.calls[i].sz \in 0..31
            /\ \A i \in CallsOf(last.calls, "get_block") :
                 /\ last.calls[i].bx = lx /\ last.calls[i].bz = lz
                 /\ last.calls[i].bx \in 0..15 /\ last.calls[i].bz \in 0..15
            /\ world = OpenWorld =>
                 /\ Len(last.calls) = 3
                 /\ DOMAIN chunk_cache = { << cx, cz >> }
                 /\ chunk_cache[<< cx, cz >>].x = cx
                 /\ chunk_cache[<< cx, cz >>].z = cz
                 /\ ~VoxelFails(world, x, last.args[2], z) =>
                      last.ret = Content(world, x, last.args[2], z)

\* a lookup at negative x and z, off the chunk grid, two regions from the
\* origin, went through to the chunk decoder
C5_Witness ==
    /\ last.op = "get_block"
    /\ last.args[1] < -512
    /\ last.args[3] < -512
    /\ BitAnd(last.args[1], 15) = 15
    /\ PyMod(Shr(last.args[1], 4), 32) = 31
    /\ FloorDiv(Shr(last.args[1], 4), 32) = -2
    /\ Len(last.calls) = 3
    /\ last.ret \in BlockIds

\* a scan command whose words are not six integers
Malformed(line) ==
    /\ line.cmd = "scan"
    /\ \/ Len(line.rest) # 6
       \/ \E i \in 1..Len(line.rest) : line.rest[i] \notin IntTokens

\* C8: when the scan command is given a number of coordinates other than six,
\* or a coordinate that is no integer, main() tells the user and ends having
\* called neither scan_area nor the decoder and having written no file.
C8_MalformedInput ==
    (pc = "done" /\ world.dir /\ Malformed(stdin)) =>
        /\ Len(stdout) = 4
        /\ stdout[4] \in { "exactly 6 coordinates", "valid integer coordinates",
                          "start with scan" }
        /\ stdout[4] = "start with scan" <=> stdin.rest = << >>
        /\ nops = 0
        /\ last = NoCall
        /\ from_file_calls = << >>
        /\ get_chunk_calls = << >>
        /\ region_cache = << >>
        /\ chunk_cache = << >>
        /\ outfile = NoFile

\* six words, the last one no integer: reported, nothing scanned
C8_Witness ==
    /\ pc = "done"
    /\ world.dir
    /\ stdin.cmd = "scan"
    /\ Len(stdin.rest) = 6
    /\ \A i \in 1..5 : stdin.rest[i] \in IntTokens
    /\ stdin.rest[6] \notin IntTokens
    /\ stdout[Len(stdout)] = "valid integer coordinates"
    /\ outfile = NoFile

====
